---- MODULE Spec2Model ----
(***************************************************************************)
(* Model of query/mutation.go: the write-path preprocessing of a mutation. *)
(*   verifyUid, AssignUids   identifier validation and allocation          *)
(*   ToInternal              statements (NQuads) to directed edges         *)
(*   expandEdges             wildcard expansion against a storage snapshot *)
(*   ApplyMutations          expansion gate and commit                     *)
(* Every exported function is one action; the collaborators it calls       *)
(* (lease authority, storage, schema, commit) answer from the environment  *)
(* part of the state or from a choice made inside the action, and every    *)
(* call made to them is appended to the log "calls".                       *)
(***************************************************************************)
EXTENDS Integers, Sequences, FiniteSets, TLC

VARIABLES
    pc,             \* "start" before the call, "done" after it returned, "fatal" after a failed assertion
    fn,             \* the function the request calls
    maxLeaseId,     \* worker.MaxLeaseId(), a uint64
    uid,            \* argument of verifyUid
    nquads,         \* argument of AssignUids
    newUids,        \* result of AssignUids / argument of ToInternal
    gmu,            \* argument of ToInternal: [Set, Del]
    edges,          \* result of ToInternal / of expandEdges
    err,            \* the returned error, "nil" when none
    ExpandEdge,     \* worker.Config.ExpandEdge
    m,              \* argument of ApplyMutations: [Edges, StartTs]
    store,          \* storage and schema at StartTs: [valMatrix, valErr, uids, uidsErr, reversed]
    tctx,           \* the transaction context ApplyMutations returns
    calls,          \* log of the calls made to the collaborators
    contrib         \* per input edge of expandEdges, the output edges it appended

vars == <<pc, fn, maxLeaseId, uid, nquads, newUids, gmu, edges, err,
          ExpandEdge, m, store, tctx, calls, contrib>>

(***************************************************************************)
(* uint64, kept at its width: four 16-bit limbs, most significant first.   *)
(***************************************************************************)
LimbBase == 2^16

U64(n) == <<0, 0, (n \div LimbBase) % LimbBase, n % LimbBase>>

Zero64 == U64(0)

Max64 == <<LimbBase - 1, LimbBase - 1, LimbBase - 1, LimbBase - 1>>

\* 2^64 - 1 - k, for k < 2^16
TopMinus(k) == <<LimbBase - 1, LimbBase - 1, LimbBase - 1, LimbBase - 1 - k>>

\* a*k + b as five limbs, the first is what spills over 64 bits (k*LimbBase < 2^31)
MulAdd64Wide(a, k, b) ==
    LET s4 == a[4] * k + b[4]
        s3 == a[3] * k + b[3] + (s4 \div LimbBase)
        s2 == a[2] * k + b[2] + (s3 \div LimbBase)
        s1 == a[1] * k + b[1] + (s2 \div LimbBase)
    IN  <<s1 \div LimbBase, s1 % LimbBase, s2 % LimbBase, s3 % LimbBase, s4 % LimbBase>>

\* a + b modulo 2^64, Go's uint64 addition
Add64(a, b) == Tail(MulAdd64Wide(a, 1, b))

Inc64(a) == Add64(a, U64(1))

RECURSIVE LexGt(_, _)
LexGt(a, b) ==
    IF a = <<>> THEN FALSE
    ELSE IF Head(a) # Head(b) THEN Head(a) > Head(b)
    ELSE LexGt(Tail(a), Tail(b))

Gt64(a, b) == LexGt(a, b)

Le64(a, b) == ~Gt64(a, b)

\* map[string]uint64 is a function from its keys; m[k] = v adds or overwrites
Put(map, k, v) == [x \in DOMAIN map \cup {k} |-> IF x = k THEN v ELSE map[x]]

EmptyMap == [x \in {} |-> Zero64]

(***************************************************************************)
(* Go strings are TLA+ strings; strings.HasPrefix compares the prefix.     *)
(***************************************************************************)
HasPrefix(s, prefix) ==
    /\ Len(s) >= Len(prefix)
    /\ SubSeq(s, 1, Len(prefix)) = prefix

Star == "*"

PredicateAttr == "_predicate_"

(***************************************************************************)
(* verifyUid: uid > maxLeaseId + 10000, in uint64 arithmetic.              *)
(***************************************************************************)
Margin == 10000

verifyUid(u, lease) ==
    IF Gt64(u, Add64(lease, U64(Margin))) THEN "UidGreaterThanLease" ELSE "nil"

(***************************************************************************)
(* The parts of the state a request does not use keep these values.        *)
(***************************************************************************)
NoStore == [valMatrix |-> <<<<>>>>, valErr |-> FALSE, uids |-> <<>>, uidsErr |-> FALSE,
            reversed |-> {}]

NoMutation == [Edges |-> <<>>, StartTs |-> 0]

NoGmu == [Set |-> <<>>, Del |-> <<>>]

Idle(f) ==
    /\ pc = "start"
    /\ fn = f
    /\ err = "nil"
    /\ edges = <<>>
    /\ tctx = "nil"
    /\ calls = <<>>
    /\ contrib = <<>>

(***************************************************************************)
(* A call of verifyUid on its own.                                         *)
(***************************************************************************)
LeaseInputs == {Zero64, U64(1), U64(7), U64(LimbBase - 1), TopMinus(Margin + 1),
                TopMinus(Margin), TopMinus(Margin - 1), TopMinus(1), Max64}

UidInputs(lease) ==
    {Zero64, U64(1), U64(Margin - 1), U64(Margin), U64(Margin + 1), Max64,
     Add64(lease, U64(Margin - 1)), Add64(lease, U64(Margin)), Add64(lease, U64(Margin + 1))}

InitVerifyUid ==
    /\ Idle("verifyUid")
    /\ maxLeaseId \in LeaseInputs
    /\ uid \in UidInputs(maxLeaseId)
    /\ nquads = <<>>
    /\ newUids = EmptyMap
    /\ gmu = NoGmu
    /\ ExpandEdge = FALSE
    /\ m = NoMutation
    /\ store = NoStore

VerifyUid ==
    /\ pc = "start"
    /\ fn = "verifyUid"
    /\ err' = verifyUid(uid, maxLeaseId)
    /\ pc' = "done"
    /\ UNCHANGED <<fn, maxLeaseId, uid, nquads, newUids, gmu, edges, ExpandEdge, m,
                   store, tctx, calls, contrib>>

NextVerifyUid == VerifyUid

SpecVerifyUid == InitVerifyUid /\ [][NextVerifyUid]_vars

\* uid <= lease + Margin over the unbounded integers
LeMargin(u, lease) ==
    LET wide == MulAdd64Wide(lease, 1, U64(Margin))
    IN  wide[1] > 0 \/ Le64(u, Tail(wide))

\* C5: verifyUid accepts an identifier exactly when it is at most the lease
\* ceiling + 10000, for every value of the unsigned ceiling (the claim as stated).
C5_AcceptsIffWithinMargin ==
    (pc = "done" /\ fn = "verifyUid") => (err = "nil" <=> LeMargin(uid, maxLeaseId))

(***************************************************************************)
(* gql.ParseUid: the reference read as an unsigned 64-bit decimal number.  *)
(***************************************************************************)
DigitOf(c) ==
    CASE c = "0" -> 0 [] c = "1" -> 1 [] c = "2" -> 2 [] c = "3" -> 3 [] c = "4" -> 4
      [] c = "5" -> 5 [] c = "6" -> 6 [] c = "7" -> 7 [] c = "8" -> 8 [] c = "9" -> 9
      [] OTHER -> -1

RECURSIVE ParseDigits(_, _)
ParseDigits(s, acc) ==
    IF Len(s) = 0 THEN [uid |-> acc, err |-> "nil"]
    ELSE LET d == DigitOf(SubSeq(s, 1, 1))
             wide == MulAdd64Wide(acc, 10, U64(d))
         IN  IF d < 0 THEN [uid |-> Zero64, err |-> "InvalidSyntax"]
             ELSE IF wide[1] > 0 THEN [uid |-> Zero64, err |-> "OutOfRange"]
             ELSE ParseDigits(SubSeq(s, 2, Len(s)), Tail(wide))

ParseUid(xid) ==
    IF Len(xid) = 0 THEN [uid |-> Zero64, err |-> "InvalidSyntax"]
    ELSE ParseDigits(xid, Zero64)

(***************************************************************************)
(* AssignUids                                                              *)
(***************************************************************************)
\* ScanRef with the result of verifyUid dropped
ScanRefUnverified(ref, map) ==
    IF Len(ref) = 0 THEN [map |-> map, err |-> "nil"]
    ELSE IF HasPrefix(ref, "_:") THEN [map |-> Put(map, ref, Zero64), err |-> "nil"]
    ELSE [map |-> map, err |-> ParseUid(ref).err]

\* lines 143-153 and 155-165: one reference (a subject or an object id)
ScanRef(ref, map) ==
    IF Len(ref) = 0 THEN [map |-> map, err |-> "nil"]
    ELSE IF HasPrefix(ref, "_:")
         THEN [map |-> Put(map, ref, Zero64), err |-> verifyUid(Zero64, maxLeaseId)]
         ELSE LET p == ParseUid(ref)
              IN  IF p.err # "nil" THEN [map |-> map, err |-> p.err]
                  ELSE [map |-> map, err |-> verifyUid(p.uid, maxLeaseId)]

\* lines 137-166: the loop over the statements, from statement i on
RECURSIVE ScanNQuads(_, _, _)
ScanNQuads(nqs, i, map) ==
    IF i > Len(nqs) THEN [map |-> map, err |-> "nil"]
    ELSE LET nq == nqs[i]
         IN  IF nq.Subject = Star /\ nq.ObjectValue = Star
             THEN ScanNQuads(nqs, i + 1, map)
             ELSE LET s == ScanRef(nq.Subject, map)
                  IN  IF s.err # "nil" THEN s
                      ELSE LET o == ScanRef(nq.ObjectId, s.map)
                           IN  IF o.err # "nil" THEN o
                               ELSE ScanNQuads(nqs, i + 1, o.map)

\* the assertion without its curId != 0 half
CursorOkZero(curId, endId) == Le64(curId, endId)

\* the assertion without its curId <= res.EndId half
CursorOkPastEnd(curId, endId) == curId # Zero64

\* line 182: x.AssertTruef(curId != 0 && curId <= res.EndId, ...)
CursorOk(curId, endId) == curId # Zero64 /\ Le64(curId, endId)

\* lines 181-185: the keys in the order the map iteration yields them
RECURSIVE AssignLoop(_, _, _, _)
AssignLoop(order, curId, endId, map) ==
    IF order = <<>> THEN [map |-> map, ok |-> TRUE]
    ELSE IF ~CursorOk(curId, endId) THEN [map |-> map, ok |-> FALSE]
    ELSE AssignLoop(Tail(order), Inc64(curId), endId, Put(map, Head(order), curId))

Orders(S) == {o \in [1..Cardinality(S) -> S] : \A k \in S : \E i \in DOMAIN o : o[i] = k}

\* what worker.AssignUidsOverNetwork may answer
Grants ==
    {[err |-> "NetworkError", StartId |-> Zero64, EndId |-> Zero64],
     [err |-> "nil", StartId |-> Zero64, EndId |-> U64(9)],
     [err |-> "nil", StartId |-> U64(5), EndId |-> U64(5)],
     [err |-> "nil", StartId |-> U64(5), EndId |-> U64(7)],
     [err |-> "nil", StartId |-> TopMinus(1), EndId |-> Max64]}

AssignUids ==
    /\ pc = "start"
    /\ fn = "AssignUids"
    /\ LET scan == ScanNQuads(nquads, 1, EmptyMap)
           num == Cardinality(DOMAIN scan.map)
       IN  IF scan.err # "nil"
           THEN /\ newUids' = scan.map
                /\ err' = scan.err
                /\ pc' = "done"
                /\ calls' = calls
           ELSE IF num = 0
           THEN /\ newUids' = scan.map
                /\ err' = "nil"
                /\ pc' = "done"
                /\ calls' = calls
           ELSE \E res \in Grants, order \in Orders(DOMAIN scan.map) :
                /\ calls' = Append(calls, [op |-> "AssignUidsOverNetwork", arg |-> num,
                                           res |-> res])
                /\ IF res.err # "nil"
                   THEN /\ newUids' = scan.map
                        /\ err' = res.err
                        /\ pc' = "done"
                   ELSE LET a == AssignLoop(order, res.StartId, res.EndId, scan.map)
                        IN  /\ newUids' = a.map
                            /\ err' = "nil"
                            /\ pc' = IF a.ok THEN "done" ELSE "fatal"
    /\ UNCHANGED <<fn, maxLeaseId, uid, nquads, gmu, edges, ExpandEdge, m, store, tctx,
                   contrib>>

MaxNQuads == 2

Subjects == {"", Star, "_:a", "_:b", "10001", "x"}

Objects == {[ObjectId |-> "", ObjectValue |-> Star],
            [ObjectId |-> "_:a", ObjectValue |-> ""],
            [ObjectId |-> "_:c", ObjectValue |-> ""],
            [ObjectId |-> "10001", ObjectValue |-> ""]}

NQuads == {[Subject |-> s, ObjectId |-> o.ObjectId, ObjectValue |-> o.ObjectValue] :
           s \in Subjects, o \in Objects}

SeqsUpTo(S, n) == UNION {[1..k -> S] : k \in 0..n}

InitAssignUids ==
    /\ Idle("AssignUids")
    /\ maxLeaseId \in {Zero64, U64(1), Max64}
    /\ uid = Zero64
    /\ nquads \in SeqsUpTo(NQuads, MaxNQuads)
    /\ newUids = EmptyMap
    /\ gmu = NoGmu
    /\ ExpandEdge = FALSE
    /\ m = NoMutation
    /\ store = NoStore

NextAssignUids == AssignUids

SpecAssignUids == InitAssignUids /\ [][NextAssignUids]_vars

(***************************************************************************)
(* Claims about AssignUids                                                 *)
(***************************************************************************)
\* universal-wildcard subject with default-value-wildcard object
StarStar(nq) == nq.Subject = "*" /\ nq.ObjectValue = "*"

\* the references of the non-skipped statements, as <<statement, reference>>
RefsOf(nqs) ==
    {<<i, nqs[i].Subject>> : i \in {j \in DOMAIN nqs : ~StarStar(nqs[j])}}
        \cup {<<i, nqs[i].ObjectId>> : i \in {j \in DOMAIN nqs : ~StarStar(nqs[j])}}

LabelsOf(nqs) == {r[2] : r \in {q \in RefsOf(nqs) : HasPrefix(q[2], "_:")}}

\* a concrete reference that fails parsing or validation
BadRef(ref) ==
    /\ Len(ref) > 0
    /\ ~HasPrefix(ref, "_:")
    /\ \/ ParseUid(ref).err # "nil"
       \/ verifyUid(ParseUid(ref).uid, maxLeaseId) # "nil"

Returned == pc \in {"done", "fatal"}

AllocCalls == SelectSeq(calls, LAMBDA c : c.op = "AssignUidsOverNetwork")

\* C6: one call of AssignUids issues no allocation request when the statements hold
\* no blank-node label or a concrete identifier fails parsing or validation, and
\* exactly one otherwise, for as many identifiers as there are distinct labels.
C6_OneAllocationRequest ==
    (Returned /\ fn = "AssignUids") =>
        IF LabelsOf(nquads) = {} \/ \E r \in RefsOf(nquads) : BadRef(r[2])
        THEN Len(AllocCalls) = 0
        ELSE /\ Len(AllocCalls) = 1
             /\ AllocCalls[1].arg = Cardinality(LabelsOf(nquads))

C6_Witness ==
    /\ pc = "done"
    /\ fn = "AssignUids"
    /\ Len(AllocCalls) = 1
    /\ AllocCalls[1].arg = 2
    /\ Cardinality({r \in RefsOf(nquads) : HasPrefix(r[2], "_:")}) = 3

\* C7: after a successful AssignUids every blank-node label of a non-skipped
\* statement is a key of the returned map and carries a non-zero identifier.
C7_LabelsResolved ==
    (pc = "done" /\ fn = "AssignUids" /\ err = "nil") =>
        \A l \in LabelsOf(nquads) : l \in DOMAIN newUids /\ newUids[l] # Zero64

C7_Witness ==
    /\ pc = "done"
    /\ fn = "AssignUids"
    /\ err = "nil"
    /\ Len(nquads) = 2
    /\ \E l \in LabelsOf(nquads) :
          /\ \A i \in DOMAIN nquads : l \in {nquads[i].Subject, nquads[i].ObjectId}
          /\ newUids[l] # Zero64

Granted == Len(AllocCalls) = 1 /\ AllocCalls[1].res.err = "nil"

Grant == AllocCalls[1].res

\* the labels that were given an identifier before the call ended
Assigned == {l \in DOMAIN newUids : newUids[l] # Zero64}

\* StartId + (n - 1) > EndId over the unbounded integers: fewer than n identifiers
\* in StartId..EndId
HoldsFewerThan(res, n) ==
    LET wide == MulAdd64Wide(res.StartId, 1, U64(n - 1))
    IN  wide[1] > 0 \/ Gt64(Tail(wide), res.EndId)

\* C10 as stated: every assigned identifier lies in the half-open range
\* [StartId, EndId).
C10_HalfOpenRange ==
    (Returned /\ fn = "AssignUids" /\ Granted) =>
        \A l \in Assigned : Le64(Grant.StartId, newUids[l]) /\ Gt64(Grant.EndId, newUids[l])

\* C10 amended: every assigned identifier lies in StartId..EndId, EndId included,
\* two labels never share one, and a grant that starts at 0 or holds fewer
\* identifiers than there are labels ends in the failed assertion.
C10_ClosedRange ==
    (Returned /\ fn = "AssignUids" /\ Granted) =>
        /\ \A l \in Assigned : Le64(Grant.StartId, newUids[l]) /\ Le64(newUids[l], Grant.EndId)
        /\ \A k, l \in Assigned : newUids[k] = newUids[l] => k = l
        /\ (Grant.StartId = Zero64 \/ HoldsFewerThan(Grant, Cardinality(DOMAIN newUids)))
              => pc = "fatal"
        /\ pc = "done" => Assigned = DOMAIN newUids

C10_Witness ==
    /\ pc = "done"
    /\ fn = "AssignUids"
    /\ Granted
    /\ Cardinality(Assigned) >= 2
    /\ \E l \in Assigned : newUids[l] = Grant.EndId

(***************************************************************************)
(* ToInternal                                                              *)
(***************************************************************************)
\* facets.SortAndValidate: the facets ordered by key; a key may not repeat
RECURSIVE InsertFacet(_, _)
InsertFacet(f, sorted) ==
    IF sorted = <<>> THEN <<f>>
    ELSE IF f <= Head(sorted) THEN <<f>> \o sorted
    ELSE <<Head(sorted)>> \o InsertFacet(f, Tail(sorted))

RECURSIVE SortFacets(_)
SortFacets(fs) == IF fs = <<>> THEN <<>> ELSE InsertFacet(Head(fs), SortFacets(Tail(fs)))

SortAndValidate(fs) ==
    LET sorted == SortFacets(fs)
    IN  [facets |-> sorted,
         err |-> IF \E i \in 1..(Len(sorted) - 1) : sorted[i] = sorted[i + 1]
                 THEN "RepeatedFacetKey" ELSE "nil"]

\* gql toUid: a concrete identifier, or the identifier the map holds for the label
ToUid(ref, uids) ==
    LET p == ParseUid(ref)
    IN  IF p.err = "nil" THEN p
        ELSE IF ref \in DOMAIN uids THEN [uid |-> uids[ref], err |-> "nil"]
        ELSE [uid |-> Zero64, err |-> "UidNotFound"]

NoEdge == [Op |-> "SET", Entity |-> Zero64, Attr |-> "", Value |-> "", ValueId |-> Zero64,
           Facets |-> <<>>]

\* the edge of nq once its subject resolved to s and its object id, if any, to o
ResolvedEdge(nq, s, o) ==
    IF s.err # "nil" THEN [edge |-> NoEdge, err |-> s.err]
    ELSE IF o.err # "nil" THEN [edge |-> NoEdge, err |-> o.err]
    ELSE [edge |-> [Op |-> "SET", Entity |-> s.uid, Attr |-> nq.Predicate,
                    Value |-> IF Len(nq.ObjectId) = 0 THEN nq.ObjectValue ELSE "",
                    ValueId |-> o.uid, Facets |-> nq.Facets],
          err |-> "nil"]

\* gql.NQuad.ToEdgeUsing: the statement with its references resolved
ToEdgeUsing(nq, uids) ==
    ResolvedEdge(nq, ToUid(nq.Subject, uids),
                 IF Len(nq.ObjectId) = 0 THEN [uid |-> Zero64, err |-> "nil"]
                 ELSE ToUid(nq.ObjectId, uids))

\* parse that returns nil where ToEdgeUsing failed
parseSwallow(nq, op, acc, uids) ==
    IF Len(nq.Subject) = 0 THEN [edges |-> acc, err |-> "nil"]
    ELSE LET r == ToEdgeUsing(nq, uids)
         IN  IF r.err # "nil" THEN [edges |-> acc, err |-> "nil"]
             ELSE [edges |-> Append(acc, [r.edge EXCEPT !.Op = op]), err |-> "nil"]

\* parse that puts the new edge in front
parsePrepend(nq, op, acc, uids) ==
    IF Len(nq.Subject) = 0 THEN [edges |-> acc, err |-> "nil"]
    ELSE LET r == ToEdgeUsing(nq, uids)
         IN  IF r.err # "nil" THEN [edges |-> acc, err |-> "Wrap:" \o r.err]
             ELSE [edges |-> <<[r.edge EXCEPT !.Op = op]>> \o acc, err |-> "nil"]

\* lines 196-210: the closure parse, acc being the edges so far
parse(nq, op, acc, uids) ==
    IF Len(nq.Subject) = 0 THEN [edges |-> acc, err |-> "nil"]
    ELSE LET r == ToEdgeUsing(nq, uids)
         IN  IF r.err # "nil" THEN [edges |-> acc, err |-> "Wrap:" \o r.err]
             ELSE [edges |-> Append(acc, [r.edge EXCEPT !.Op = op]), err |-> "nil"]

\* the shape tested with the object id in place of the default value
IsPredicateDeletionObjectId(nq) == nq.Subject = Star /\ nq.ObjectId = Star

\* line 221: nq.Subject == x.Star && nq.ObjectValue.GetDefaultVal() == x.Star
IsPredicateDeletion(nq) == nq.Subject = Star /\ nq.ObjectValue = Star

AlterError == "Predicate deletion should be called via alter."

\* lines 212-219: the loop over gmu.Set from statement i on; the facets are sorted
\* in place
RECURSIVE SetLoop(_, _, _, _)
SetLoop(set, i, acc, uids) ==
    IF i > Len(set) THEN [Set |-> set, edges |-> acc, err |-> "nil"]
    ELSE LET sv == SortAndValidate(set[i].Facets)
             nq == [set[i] EXCEPT !.Facets = sv.facets]
             set2 == [set EXCEPT ![i] = nq]
             r == parse(nq, "SET", acc, uids)
         IN  IF sv.err # "nil" THEN [Set |-> set2, edges |-> acc, err |-> sv.err]
             ELSE IF r.err # "nil" THEN [Set |-> set2, edges |-> r.edges, err |-> r.err]
             ELSE SetLoop(set2, i + 1, r.edges, uids)

\* lines 220-227: the loop over gmu.Del from statement i on
RECURSIVE DelLoop(_, _, _, _)
DelLoop(del, i, acc, uids) ==
    IF i > Len(del) THEN [edges |-> acc, err |-> "nil"]
    ELSE IF IsPredicateDeletion(del[i]) THEN [edges |-> acc, err |-> AlterError]
    ELSE LET r == parse(del[i], "DEL", acc, uids)
         IN  IF r.err # "nil" THEN r
             ELSE DelLoop(del, i + 1, r.edges, uids)

ToInternal ==
    /\ pc = "start"
    /\ fn = "ToInternal"
    /\ LET s == SetLoop(gmu.Set, 1, <<>>, newUids)
           d == DelLoop(gmu.Del, 1, s.edges, newUids)
       IN  /\ gmu' = [gmu EXCEPT !.Set = s.Set]
           /\ IF s.err # "nil"
              THEN edges' = s.edges /\ err' = s.err
              ELSE edges' = d.edges /\ err' = d.err
    /\ pc' = "done"
    /\ UNCHANGED <<fn, maxLeaseId, uid, nquads, newUids, ExpandEdge, m, store, tctx,
                   calls, contrib>>

MaxStmts == 2

StmtSubjects == {"", Star, "_:a", "7"}

StmtObjects == {[ObjectId |-> "", ObjectValue |-> Star],
                [ObjectId |-> "_:a", ObjectValue |-> ""]}

\* facet keys, numbered in their sort order
StmtFacets == {<<>>, <<2, 1>>, <<1, 1>>}

Stmts == {[Subject |-> s, Predicate |-> "name", ObjectId |-> o.ObjectId,
           ObjectValue |-> o.ObjectValue, Facets |-> f] :
          s \in StmtSubjects, o \in StmtObjects, f \in StmtFacets}

InitToInternal ==
    /\ Idle("ToInternal")
    /\ maxLeaseId = Zero64
    /\ uid = Zero64
    /\ nquads = <<>>
    /\ newUids \in {EmptyMap, Put(EmptyMap, "_:a", U64(5))}
    /\ \E set \in SeqsUpTo(Stmts, MaxStmts) :
          \E del \in SeqsUpTo(Stmts, MaxStmts - Len(set)) :
              gmu = [Set |-> set, Del |-> del]
    /\ ExpandEdge = FALSE
    /\ m = NoMutation
    /\ store = NoStore

NextToInternal == ToInternal

SpecToInternal == InitToInternal /\ [][NextToInternal]_vars

(***************************************************************************)
(* Claims about ToInternal                                                 *)
(***************************************************************************)
Translated == pc = "done" /\ fn = "ToInternal"

\* the statement fails facet validation (Set list only) or edge resolution
StmtFails(nq, inSet) ==
    \/ inSet /\ SortAndValidate(nq.Facets).err # "nil"
    \/ Len(nq.Subject) > 0 /\ ToEdgeUsing(nq, newUids).err # "nil"

FirstStarStar(list) ==
    CHOOSE i \in DOMAIN list : StarStar(list[i]) /\ \A j \in 1..(i - 1) : ~StarStar(list[j])

\* the statements before position i that carry a subject
WithSubjectBefore(list, i) == {j \in 1..(i - 1) : Len(list[j].Subject) > 0}

EdgesOf(op) == SelectSeq(edges, LAMBDA e : e.Op = op)

\* C2 as stated: a '*' subject / default '*' object statement in the delete list
\* makes ToInternal return the alter error and produce no edge for it or for any
\* delete statement after it, whatever the Set list and the blank-node map hold.
C2_AlterErrorAlways ==
    (Translated /\ \E i \in DOMAIN gmu.Del : StarStar(gmu.Del[i])) =>
        /\ err = AlterError
        /\ Len(EdgesOf("DEL")) <= Cardinality(WithSubjectBefore(gmu.Del, FirstStarStar(gmu.Del)))

\* C2 amended: the same, the alter error being the one returned provided no Set
\* statement and no earlier delete statement fails facet validation or edge
\* resolution; otherwise that earlier failure is the error returned.
C2_AlterErrorUnlessEarlierFailure ==
    (Translated /\ \E i \in DOMAIN gmu.Del : StarStar(gmu.Del[i])) =>
        LET first == FirstStarStar(gmu.Del)
        IN  /\ err # "nil"
            /\ ( /\ \A j \in DOMAIN gmu.Set : ~StmtFails(gmu.Set[j], TRUE)
                 /\ \A j \in 1..(first - 1) : ~StmtFails(gmu.Del[j], FALSE) )
               => err = AlterError
            /\ err = AlterError => Len(EdgesOf("DEL")) = Cardinality(WithSubjectBefore(gmu.Del, first))
            /\ Len(EdgesOf("DEL")) <= Cardinality(WithSubjectBefore(gmu.Del, first))

C2_Witness ==
    /\ Translated
    /\ Len(gmu.Del) = 2
    /\ StarStar(gmu.Del[2])
    /\ err = AlterError
    /\ Len(edges) = 1
    /\ edges[1].Op = "DEL"

\* C3 as stated: a '*' subject / default '*' object statement in the Set list makes
\* ToInternal return an error and an empty edge list.
C3_SetStarStarNoEdges ==
    (Translated /\ \E i \in DOMAIN gmu.Set : StarStar(gmu.Set[i])) =>
        err # "nil" /\ edges = <<>>

\* C3 amended: ToInternal returns an error and produces no edge for that statement
\* or any statement after it; the edges of the Set statements before it are still
\* returned with the error.
C3_SetStarStarRejected ==
    (Translated /\ \E i \in DOMAIN gmu.Set : StarStar(gmu.Set[i])) =>
        LET first == FirstStarStar(gmu.Set)
        IN  /\ err # "nil"
            /\ EdgesOf("DEL") = <<>>
            /\ Len(edges) <= Cardinality(WithSubjectBefore(gmu.Set, first))
            /\ (\A j \in 1..(first - 1) : ~StmtFails(gmu.Set[j], TRUE))
                  => Len(edges) = Cardinality(WithSubjectBefore(gmu.Set, first))

C3_Witness ==
    /\ Translated
    /\ Len(gmu.Set) = 2
    /\ StarStar(gmu.Set[2])
    /\ err # "nil"
    /\ Len(edges) = 1

\* the statements in input order, Set list first, each with the list it came from
Tagged ==
    [i \in 1..Len(gmu.Set) |-> [op |-> "SET", nq |-> gmu.Set[i]]]
        \o [i \in 1..Len(gmu.Del) |-> [op |-> "DEL", nq |-> gmu.Del[i]]]

TaggedWithSubject == SelectSeq(Tagged, LAMBDA t : Len(t.nq.Subject) > 0)

EdgeFor(t) == [ToEdgeUsing(t.nq, newUids).edge EXCEPT !.Op = t.op]

\* C8 as stated: without a rejection, N statements give N edges in the order of the
\* statements, Set before Delete, stamped SET and DEL.
C8_OneEdgePerStatement ==
    (Translated /\ err = "nil") =>
        /\ Len(edges) = Len(gmu.Set) + Len(gmu.Del)
        /\ \A k \in DOMAIN edges : edges[k] = EdgeFor(Tagged[k])

\* C8 amended: without a rejection, the N statements that carry a subject give N
\* edges in the order of the statements, the Set list's stamped SET and first, the
\* Delete list's stamped DEL; a statement with an empty subject gives no edge.
C8_OrderPreserved ==
    (Translated /\ err = "nil") =>
        /\ Len(edges) = Len(TaggedWithSubject)
        /\ \A k \in DOMAIN edges : edges[k] = EdgeFor(TaggedWithSubject[k])

C8_Witness ==
    /\ Translated
    /\ err = "nil"
    /\ Len(gmu.Set) = 1
    /\ Len(gmu.Del) = 1
    /\ Len(edges) = 2
    /\ edges[1].Op = "SET"
    /\ edges[2].Op = "DEL"
    /\ edges[1].Entity # edges[2].Entity

(***************************************************************************)
(* expandEdges and ApplyMutations                                          *)
(***************************************************************************)
Preds == {"p1", "p2"}

\* getNodePredicates for DestUIDs = {entity} at ReadTs = ts: uid 0 is no node and
\* has no predicate
getNodePredicates(entity, ts) ==
    IF store.valErr THEN [valMatrix |-> <<>>, err |-> "ReadError"]
    ELSE IF entity = Zero64 THEN [valMatrix |-> <<<<>>>>, err |-> "nil"]
    ELSE [valMatrix |-> store.valMatrix, err |-> "nil"]

\* posting.Get(x.DataKey(pred, entity)).Uids(ListOptions{ReadTs: ts})
PlistUids(pred, entity, ts) ==
    IF store.uidsErr THEN [Uids |-> <<>>, err |-> "ReadError"]
    ELSE IF entity = Zero64 THEN [Uids |-> <<>>, err |-> "nil"]
    ELSE [Uids |-> store.uids[pred], err |-> "nil"]

\* schema.State().IsReversed(pred)
IsReversed(pred) == pred \in store.reversed

\* lines 74-78: the values of the list that are not empty
RECURSIVE NonEmptyVals(_)
NonEmptyVals(vals) ==
    IF vals = <<>> THEN <<>>
    ELSE IF Len(Head(vals)) > 0 THEN <<Head(vals)>> \o NonEmptyVals(Tail(vals))
    ELSE NonEmptyVals(Tail(vals))

\* the pair without the _predicate_ edge
PredEdgesNoBookkeeping(edge, pred) == <<[edge EXCEPT !.Attr = pred]>>

\* lines 82-92: the copy of the edge for the predicate and its _predicate_ edge
PredEdges(edge, pred) ==
    <<[edge EXCEPT !.Attr = pred],
      [Op |-> edge.Op, Entity |-> edge.Entity, Attr |-> PredicateAttr, Value |-> pred,
       ValueId |-> Zero64, Facets |-> <<>>]>>

\* the reverse edges without the "~" in front of the predicate
ReverseEdgesNoMarker(edge, pred, objs) ==
    [k \in 1..Len(objs) |->
        [Op |-> edge.Op, Entity |-> objs[k], Attr |-> PredicateAttr, Value |-> pred,
         ValueId |-> Zero64, Facets |-> <<>>]]

\* lines 109-117: one _predicate_ edge with value "~" + pred per object
ReverseEdges(edge, pred, objs) ==
    [k \in 1..Len(objs) |->
        [Op |-> edge.Op, Entity |-> objs[k], Attr |-> PredicateAttr,
         Value |-> "~" \o pred, ValueId |-> Zero64, Facets |-> <<>>]]

ReadCall(op, arg, ts) == [op |-> op, arg |-> arg, ts |-> ts]

\* lines 81-118: the loop over preds from position j on; out are the edges appended
\* for this input edge so far, log the reads made so far
RECURSIVE ExpandPreds(_, _, _, _, _, _)
ExpandPreds(edge, preds, j, out, log, ts) ==
    IF j > Len(preds) THEN [out |-> out, log |-> log, err |-> "nil"]
    ELSE LET pred == preds[j]
             out2 == out \o PredEdges(edge, pred)
             read == PlistUids(pred, edge.Entity, ts)
         IN  IF ~IsReversed(pred) THEN ExpandPreds(edge, preds, j + 1, out2, log, ts)
             ELSE IF edge.Value # Star
             THEN ExpandPreds(edge, preds, j + 1,
                              out2 \o ReverseEdges(edge, pred, <<edge.ValueId>>), log, ts)
             ELSE LET log2 == Append(log, ReadCall("plist.Uids", <<pred, edge.Entity>>, ts))
                  IN  IF read.err # "nil" THEN [out |-> <<>>, log |-> log2, err |-> read.err]
                      ELSE ExpandPreds(edge, preds, j + 1,
                                       out2 \o ReverseEdges(edge, pred, read.Uids), log2, ts)

\* line 52: the * P * case
IsPassthrough(edge) == edge.Op = "DEL" /\ edge.Entity = Zero64 /\ edge.Value = Star

\* lines 49-119: one input edge
ExpandOne(edge, log, ts) ==
    IF IsPassthrough(edge) THEN [out |-> <<edge>>, log |-> log, err |-> "nil"]
    ELSE IF edge.Attr # Star THEN ExpandPreds(edge, <<edge.Attr>>, 1, <<>>, log, ts)
    ELSE LET read == getNodePredicates(edge.Entity, ts)
             log2 == Append(log, ReadCall("getNodePredicates", edge.Entity, ts))
         IN  IF read.err # "nil" THEN [out |-> <<>>, log |-> log2, err |-> read.err]
             ELSE IF Len(read.valMatrix) # 1
             THEN [out |-> <<>>, log |-> log2, err |-> "ExpectedOneList"]
             ELSE ExpandPreds(edge, NonEmptyVals(read.valMatrix[1]), 1, <<>>, log2, ts)

\* lines 47-121: from input edge i on; per input edge the edges it appended
RECURSIVE expandEdges(_, _, _, _, _)
expandEdges(in, i, per, log, ts) ==
    IF i > Len(in) THEN [per |-> per, log |-> log, err |-> "nil"]
    ELSE LET x == ExpandOne(in[i], log, ts)
         IN  IF x.err # "nil" THEN [per |-> per, log |-> x.log, err |-> x.err]
             ELSE expandEdges(in, i + 1, Append(per, [edge |-> in[i], out |-> x.out]),
                              x.log, ts)

RECURSIVE Flatten(_)
Flatten(per) == IF per = <<>> THEN <<>> ELSE Head(per).out \o Flatten(Tail(per))

\* the test on the first edge only
HasStarAttrFirst(es) == es # <<>> /\ es[1].Attr = Star

\* lines 31-36: some edge carries the wildcard predicate
HasStarAttr(es) == \E i \in DOMAIN es : es[i].Attr = Star

ExpandDisabledError ==
    "Expand edge (--expand_edge) is set to false. Cannot perform S * * deletion."

\* what worker.MutateOverNetwork may answer
CommitAnswers == {[tctx |-> "ctx", err |-> "nil"], [tctx |-> "nil", err |-> "CommitError"],
                  [tctx |-> "ctx", err |-> "CommitError"]}

ApplyMutations ==
    /\ pc = "start"
    /\ fn = "ApplyMutations"
    /\ pc' = "done"
    /\ LET x == expandEdges(m.Edges, 1, <<>>, <<>>, m.StartTs)
       IN  IF ExpandEdge /\ x.err # "nil"
           THEN /\ err' = "While adding internal edges: " \o x.err
                /\ tctx' = "nil"
                /\ calls' = x.log
                /\ contrib' = x.per
                /\ UNCHANGED <<m, edges>>
           ELSE IF ~ExpandEdge /\ HasStarAttr(m.Edges)
           THEN /\ err' = ExpandDisabledError
                /\ tctx' = "nil"
                /\ UNCHANGED <<m, edges, calls, contrib>>
           ELSE \E res \in CommitAnswers :
                /\ m' = IF ExpandEdge THEN [m EXCEPT !.Edges = Flatten(x.per)] ELSE m
                /\ edges' = IF ExpandEdge THEN Flatten(x.per) ELSE edges
                /\ contrib' = IF ExpandEdge THEN x.per ELSE contrib
                /\ calls' = Append(IF ExpandEdge THEN x.log ELSE calls,
                                   [op |-> "MutateOverNetwork", arg |-> m'.Edges,
                                    ts |-> m.StartTs])
                /\ tctx' = res.tctx
                /\ err' = res.err
    /\ UNCHANGED <<fn, maxLeaseId, uid, nquads, newUids, gmu, ExpandEdge, store>>

MaxEdges == 2

InEdges == {[Op |-> op, Entity |-> en, Attr |-> at, Value |-> o.Value,
             ValueId |-> o.ValueId, Facets |-> <<>>] :
            op \in {"SET", "DEL"}, en \in {Zero64, U64(1)}, at \in {Star, "p1"},
            o \in {[Value |-> Star, ValueId |-> Zero64], [Value |-> "", ValueId |-> U64(9)]}}

Stores == {[valMatrix |-> vm, valErr |-> ve, uids |-> u, uidsErr |-> ue, reversed |-> r] :
           vm \in {<<>>, <<<<>>>>, <<<<"p1", "p2">>>>, <<<<"p2", "", "p1">>>>,
                   <<<<"p1">>, <<"p2">>>>},
           ve \in BOOLEAN,
           u \in {[p \in Preds |-> <<>>], [p \in Preds |-> IF p = "p1" THEN <<U64(5), U64(6)>>
                                                          ELSE <<U64(6)>>]},
           ue \in BOOLEAN,
           r \in {{}, {"p1"}}}

InitApplyMutations ==
    /\ Idle("ApplyMutations")
    /\ maxLeaseId = Zero64
    /\ uid = Zero64
    /\ nquads = <<>>
    /\ newUids = EmptyMap
    /\ gmu = NoGmu
    /\ ExpandEdge \in BOOLEAN
    /\ \E es \in SeqsUpTo(InEdges, MaxEdges) : m = [Edges |-> es, StartTs |-> 3]
    /\ store \in Stores

NextApplyMutations == ApplyMutations

SpecApplyMutations == InitApplyMutations /\ [][NextApplyMutations]_vars

(***************************************************************************)
(* Claims about expandEdges and ApplyMutations                             *)
(***************************************************************************)
Applied == pc = "done" /\ fn = "ApplyMutations"

CommitCalls == SelectSeq(calls, LAMBDA c : c.op = "MutateOverNetwork")

\* expansion ran and returned its edge list (the commit call follows it)
Expanded == Applied /\ ExpandEdge /\ Len(CommitCalls) = 1

\* a delete on the wildcard predicate that is not the entity-0 / value-'*' shape
WildcardDelete(e) ==
    e.Op = "DEL" /\ e.Attr = "*" /\ ~(e.Entity = Zero64 /\ e.Value = "*")

\* the predicates the predicate-set read returns for the entity
LivePreds(entity) ==
    LET vals == getNodePredicates(entity, m.StartTs).valMatrix[1]
    IN  SelectSeq(vals, LAMBDA v : v # "")

\* the targets of the reverse bookkeeping of edge e for predicate p
Targets(e, p) ==
    IF e.Value # "*" THEN <<e.ValueId>> ELSE PlistUids(p, e.Entity, m.StartTs).Uids

Bookkeeping(e, entity, value) ==
    [Op |-> e.Op, Entity |-> entity, Attr |-> "_predicate_", Value |-> value,
     ValueId |-> Zero64, Facets |-> <<>>]

\* what the claim says predicate p adds for edge e
BlockFor(e, p) ==
    <<[e EXCEPT !.Attr = p], Bookkeeping(e, e.Entity, p)>>
        \o (IF p \in store.reversed
            THEN [t \in 1..Len(Targets(e, p)) |-> Bookkeeping(e, Targets(e, p)[t], "~" \o p)]
            ELSE <<>>)

BlockLen(e, p) == 2 + (IF p \in store.reversed THEN Len(Targets(e, p)) ELSE 0)

RECURSIVE BlocksLen(_, _, _)
BlocksLen(e, ps, k) == IF k = 0 THEN 0 ELSE BlocksLen(e, ps, k - 1) + BlockLen(e, ps[k])

\* position in out of the first edge the k-th predicate adds
BlockStart(e, ps, k) == 1 + BlocksLen(e, ps, k - 1)

\* C1: a wildcard-predicate delete on entity E whose predicate-set read returns
\* p1..pk expands, for each pi in that order, to the delete edge with Attr = pi, the
\* _predicate_ edge on E with value pi and, only if pi is reverse-indexed, one
\* _predicate_ edge with value "~" + pi per target; the reads are made at StartTs.
C1_WildcardExpansion ==
    Expanded =>
        /\ m.Edges = Flatten(contrib)
        /\ \A c \in DOMAIN calls : calls[c].ts = m.StartTs
        /\ \A i \in DOMAIN contrib :
              LET e == contrib[i].edge
                  out == contrib[i].out
                  ps == LivePreds(e.Entity)
              IN  WildcardDelete(e) =>
                    /\ Len(out) = BlockStart(e, ps, Len(ps) + 1) - 1
                    /\ \A k \in DOMAIN ps :
                          SubSeq(out, BlockStart(e, ps, k), BlockStart(e, ps, k + 1) - 1)
                              = BlockFor(e, ps[k])
                    /\ \A j \in DOMAIN out :
                          HasPrefix(out[j].Value, "~") =>
                              SubSeq(out[j].Value, 2, Len(out[j].Value)) \in store.reversed

C1_Witness ==
    /\ Expanded
    /\ store.reversed = {"p1"}
    /\ \E i \in DOMAIN contrib :
          /\ WildcardDelete(contrib[i].edge)
          /\ contrib[i].edge.Value = "*"
          /\ LivePreds(contrib[i].edge.Entity) = <<"p2", "p1">>
          /\ Len(contrib[i].out) = 6

\* C4: with expansion disabled, a wildcard predicate anywhere in the edge list makes
\* ApplyMutations return the configuration error with a nil transaction context,
\* and no commit call or storage read is made at any point.
C4_DisabledExpansionFailsFast ==
    (fn = "ApplyMutations" /\ ~ExpandEdge /\ \E i \in DOMAIN m.Edges : m.Edges[i].Attr = "*") =>
        /\ calls = <<>>
        /\ pc = "done" => (err = ExpandDisabledError /\ tctx = "nil")

C4_Witness ==
    /\ Applied
    /\ ~ExpandEdge
    /\ Len(m.Edges) = 2
    /\ m.Edges[1].Attr # "*"
    /\ m.Edges[2].Attr = "*"
    /\ err = ExpandDisabledError

\* C9 as stated: when the input holds a wildcard-predicate delete the returned list
\* is strictly longer than the input, and each such delete adds at least K edges.
C9_StrictlyLonger ==
    (Expanded /\ \E i \in DOMAIN contrib :
                    contrib[i].edge.Op = "DEL" /\ contrib[i].edge.Attr = "*") =>
        /\ Len(m.Edges) > Len(contrib)
        /\ \A i \in DOMAIN contrib :
              WildcardDelete(contrib[i].edge) =>
                  Len(contrib[i].out) >= Len(LivePreds(contrib[i].edge.Entity))

\* C9 amended: each expanded wildcard-predicate delete against an entity with K
\* live predicates adds at least 2K edges (never fewer than K), none when K = 0;
\* the returned list is strictly longer than the input when some input edge is not
\* of the passthrough shape and no expanded wildcard edge meets K = 0.
C9_AtLeastTwicePerPredicate ==
    Expanded =>
        /\ \A i \in DOMAIN contrib :
              LET e == contrib[i].edge
              IN  /\ (e.Attr = "*" /\ ~(e.Op = "DEL" /\ e.Entity = Zero64 /\ e.Value = "*"))
                        => Len(contrib[i].out) >= 2 * Len(LivePreds(e.Entity))
                  /\ (e.Op = "DEL" /\ e.Entity = Zero64 /\ e.Value = "*")
                        => contrib[i].out = <<e>>
        /\ ( /\ \E i \in DOMAIN contrib :
                   LET e == contrib[i].edge
                   IN  ~(e.Op = "DEL" /\ e.Entity = Zero64 /\ e.Value = "*")
             /\ \A i \in DOMAIN contrib :
                   LET e == contrib[i].edge
                   IN  (e.Attr = "*" /\ ~(e.Op = "DEL" /\ e.Entity = Zero64 /\ e.Value = "*"))
                           => Len(LivePreds(e.Entity)) > 0 )
           => Len(m.Edges) > Len(contrib)

C9_Witness ==
    /\ Expanded
    /\ Len(contrib) = 2
    /\ WildcardDelete(contrib[1].edge)
    /\ Len(LivePreds(contrib[1].edge.Entity)) = 2
    /\ Len(contrib[1].out) = 4
    /\ Len(m.Edges) > Len(contrib)

====
